---- MODULE Spec2Model ----
(***************************************************************************)
(* A model of src/main.py: the batch job that sweeps old files out of the  *)
(* shared Drive folder, loads the channel catalog, resolves the latest     *)
(* uploads of every channel and mirrors the ones not yet in the history.   *)
(*                                                                         *)
(* The external collaborators (Drive folder, YouTube metadata, the local   *)
(* file system, the clock) are state of the model; every call to them can  *)
(* succeed or raise.  main() is one sequential procedure, modelled by a    *)
(* program counter pc with one action per call it makes.                   *)
(***************************************************************************)
EXTENDS Integers, Sequences, FiniteSets, TLC

(***************************************************************************)
(* Program constants.                                                      *)
(***************************************************************************)
LAST_VIDEO_N == 3

days_to_keep == 14

(***************************************************************************)
(* Bounds of the model.                                                    *)
(***************************************************************************)
\* clock ticks per day (the clock is counted in hours)
TicksPerDay == 24

\* ages of the files found in the folder: retention -AgeSlack .. +AgeSlack
AgeSlack == 1

\* offsets of the local clock from UTC, in ticks: -MaxTz .. MaxTz
MaxTz == 1

\* mirrored files in the folder when the first run starts
MaxFiles == 2

\* channel identifiers 1..NumChannels (0 is the empty identifier)
NumChannels == 2

\* entries of channels.json
MaxCatalog == 2

\* video identifiers 1..NumVideos
NumVideos == 4

\* entries of past_videos.json when the first run starts
MaxHistory == 1

\* videos 1..NumHistoryVideos may be in past_videos.json when the first run starts
NumHistoryVideos == 2

\* external calls that raise, over all runs
MaxFaults == 2

\* runs of main() in a row
MaxRuns == 2

\* ticks the clock may advance between two runs
MaxAdvance == 1

(***************************************************************************)
(* Values.                                                                 *)
(***************************************************************************)
Range(s) == {s[i] : i \in DOMAIN s}

Min(a, b) == IF a < b THEN a ELSE b

\* f"https://www.youtube.com/watch?v={video_id}"
WatchUrl(video_id) == [base |-> "https://www.youtube.com/watch?v=", v |-> video_id]

\* another spelling of a link to the same video
ShortUrl(video_id) == [base |-> "https://youtu.be/", v |-> video_id]

NoUrl == [base |-> "", v |-> 0]

VideoIds == 1..NumVideos

HistoryUrls == {WatchUrl(v) : v \in 1..NumHistoryVideos} \cup {ShortUrl(1)}

\* the title the provider reports for a video
TitleOf(video_id) == [stem |-> "title", n |-> video_id]

\* f"{video_title}.mp4"
FileName(video_title) == [stem |-> video_title.stem, n |-> video_title.n, ext |-> "mp4"]

CatalogName == [stem |-> "channels", n |-> 0, ext |-> "json"]

\* an RFC 3339 UTC timestamp as Drive reports it: the instant and the "Z"
Rfc3339(t) == [t |-> t, z |-> "Z"]

RetentionTicks(days) == days * TicksPerDay

Ages == (RetentionTicks(days_to_keep) - AgeSlack)..(RetentionTicks(days_to_keep) + AgeSlack)

TzOffsets == (0 - MaxTz)..MaxTz

ChannelIds == 0..NumChannels

\* sequences over S of length at most n
RECURSIVE SeqsUpTo(_, _)
SeqsUpTo(S, n) ==
  IF n = 0 THEN {<<>>}
  ELSE LET shorter == SeqsUpTo(S, n - 1)
       IN  shorter \cup {Append(s, x) : s \in {t \in shorter : Len(t) = n - 1}, x \in S}

\* an uploads playlist: consecutive video identifiers first .. first+len-1
Window(first, len) == [i \in 1..len |-> first + i - 1]

\* the uploads playlists channel c may have: its videos start at video c
PlaylistsOf(c) == {Window(c, l) : l \in 0..(NumVideos + 1 - c)}

\* Python values the resolver returns: a (url, title) tuple, None, a message
PyTuple(url, title) == [tag |-> "tuple", url |-> url, title |-> title]

PyNone == [tag |-> "None", url |-> NoUrl, title |-> TitleOf(0)]

PyStr(msg) == [tag |-> "str", url |-> NoUrl, title |-> [stem |-> msg, n |-> 0]]

\* a resolution label such as "480p": its digits and the letter
Res(n) == [digits |-> n, suffix |-> "p"]

\* a pytubefix Stream: its position in the list the provider gives (itag),
\* is_progressive, subtype (the file extension) and resolution
Stream(itag, progressive, subtype, n) ==
  [itag |-> itag, progressive |-> progressive, subtype |-> subtype, resolution |-> Res(n)]

\* Python's None where a Stream is expected
NoStream == [itag |-> 0, progressive |-> FALSE, subtype |-> "", resolution |-> Res(0)]

\* the streams a video may offer: progressive mp4 at four resolutions, an
\* adaptive mp4 at 480p and at 144p, a progressive webm at 240p
StreamUniverse ==
  {Stream(1, TRUE, "mp4", 360), Stream(2, TRUE, "mp4", 480), Stream(3, TRUE, "mp4", 720),
   Stream(4, TRUE, "mp4", 1080), Stream(5, FALSE, "mp4", 480), Stream(6, FALSE, "mp4", 144),
   Stream(7, TRUE, "webm", 240)}

\* what a video usually offers
UsualStreams ==
  {Stream(1, TRUE, "mp4", 360), Stream(3, TRUE, "mp4", 720), Stream(5, FALSE, "mp4", 480)}

\* one entry of the run's trace of calls
Event(op, n, url, res) == [op |-> op, n |-> n, url |-> url, res |-> res]

VARIABLES
  now,          \* the clock, UTC ticks
  tz,           \* offset of the host's local time from UTC, in ticks
  drive,        \* the files of the shared folder: {[id, name, createdTime]}
  catalog,      \* the content of channels.json: a sequence of channel ids
  youtube,      \* channel id -> [exists, uploads]
  fileHistory,  \* past_videos.json: [exists, content]
  scratch,      \* file names present in the videos/ directory
  faults,       \* external calls that have raised so far
  pc,           \* where main() is
  run,          \* number of the current run
  items,        \* delete_old_videos: the listed files still to look at
  channels,     \* main: the catalog as loaded
  ci,           \* main: position of the channel loop in channels
  past_videos,  \* main: the History Set in memory
  videos,       \* main: the resolver's result
  vi,           \* main: position of the video loop in videos
  log,          \* the calls made so far in this run, in order
  listed,       \* the files the sweep's listing returned in this run
  prevFile,     \* past_videos.json as it was when this run started
  prev,         \* of the run before: the URLs it recorded, and those it
                \* tried and did not record
  yt_streams    \* video id -> the streams YouTube(url).streams offers

vars == <<now, tz, drive, catalog, youtube, fileHistory, scratch, faults, pc, run,
          items, channels, ci, past_videos, videos, vi, log, listed, prevFile, prev,
          yt_streams>>

(***************************************************************************)
(* Outcomes of an external call: it returns, it raises                     *)
(* googleapiclient.errors.HttpError, or it raises another Exception (a     *)
(* socket timeout, a transport error, an OSError).                         *)
(***************************************************************************)
Raises == {"HttpError", "Exception"}

Outcomes == {"ok"} \cup Raises

\* the outcomes a call may have now: raising is bounded by MaxFaults
Possible == IF faults < MaxFaults THEN Outcomes ELSE {"ok"}

Spend(r) == IF r = "ok" THEN faults ELSE faults + 1

(***************************************************************************)
(* Retention Sweeper                                                       *)
(***************************************************************************)
\* datetime.datetime.fromisoformat(date_str[:-1]): the trailing "Z" is cut
\* and the rest is read as a naive datetime
fromisoformat(date_str) == date_str.t

\* datetime.datetime.now(): the naive local time of the host
datetime_now == now + tz

is_older_than_days(date_str, days) ==
  fromisoformat(date_str) < datetime_now - RetentionTicks(days)

\* files().list(q="'<folder>' in parents"): the files of the folder, by id
RECURSIVE ListFolder(_)
ListFolder(files) ==
  IF files = {} THEN <<>>
  ELSE LET f == CHOOSE x \in files : \A y \in files : x.id <= y.id
       IN  <<f>> \o ListFolder(files \ {f})

\* delete_video_from_drive(video_id) when files().delete ends with r:
\* the folder afterwards, and whether the call raises to its caller
delete_video_from_drive(video_id, r) ==
  [drive  |-> IF r = "ok" THEN {f \in drive : f.id # video_id} ELSE drive,
   raised |-> r \notin {"ok", "HttpError"}]

\* a slip: the loop over the listed files is left after the listing
SweepPc_Leave(rest) == "catalog"

\* delete_old_videos, line 45: the loop over the listed files, then back to main
SweepPc(rest) == IF rest = <<>> THEN "catalog" ELSE "sweep_item"

\* delete_old_videos, lines 37-44: the listing call
delete_old_videos_list ==
  /\ pc = "sweep_list"
  /\ \E r \in Possible :
       /\ faults' = Spend(r)
       /\ log' = Append(log, Event("files.list", 0, NoUrl, r))
       /\ IF r = "ok"
          THEN /\ items' = ListFolder(drive)
               /\ listed' = drive
               /\ pc' = SweepPc(ListFolder(drive))
          ELSE /\ pc' = "aborted"
               /\ UNCHANGED <<items, listed>>
  /\ UNCHANGED <<now, tz, drive, catalog, youtube, fileHistory, scratch, run,
                 channels, ci, past_videos, videos, vi, prevFile, prev,
                 yt_streams>>

\* delete_old_videos, lines 45-49: one turn of the loop over the listed files
delete_old_videos_item ==
  /\ pc = "sweep_item"
  /\ items # <<>>
  /\ LET item == Head(items)
     IN  IF is_older_than_days(item.createdTime, days_to_keep)
         THEN \E r \in Possible :
                LET d == delete_video_from_drive(item.id, r)
                IN  /\ faults' = Spend(r)
                    /\ log' = Append(log, Event("files.delete", item.id, NoUrl, r))
                    /\ drive' = d.drive
                    /\ IF d.raised
                       THEN pc' = "aborted" /\ UNCHANGED items
                       ELSE pc' = SweepPc(Tail(items)) /\ items' = Tail(items)
         ELSE /\ items' = Tail(items)
              /\ pc' = SweepPc(Tail(items))
              /\ UNCHANGED <<faults, log, drive>>
  /\ UNCHANGED <<now, tz, catalog, youtube, fileHistory, scratch, run,
                 channels, ci, past_videos, videos, vi, listed, prevFile, prev,
                 yt_streams>>

(***************************************************************************)
(* Channel Catalog Loader                                                  *)
(***************************************************************************)
\* files().list(q="name='channels.json' and '<folder>' in parents")
CatalogFiles(files) == ListFolder({f \in files : f.name = CatalogName})

\* download_channels_list_from_drive() when the listing ends with r1 and the
\* media download with r2: raised, or None (absent), or the parsed list
download_channels_list_from_drive(r1, r2) ==
  IF r1 # "ok" THEN [raised |-> TRUE, absent |-> FALSE, value |-> <<>>]
  ELSE IF CatalogFiles(drive) = <<>> THEN [raised |-> FALSE, absent |-> TRUE, value |-> <<>>]
  ELSE IF r2 # "ok" THEN [raised |-> TRUE, absent |-> FALSE, value |-> <<>>]
  ELSE [raised |-> FALSE, absent |-> FALSE, value |-> catalog]

\* a slip: None is not told from a catalog, the run goes on
AfterCatalog_NoReturn(got) == IF got.raised THEN "aborted" ELSE "history"

\* main, lines 177-179: "if channels is None: return"
AfterCatalog(got) ==
  IF got.raised THEN "aborted"
  ELSE IF got.absent THEN "done"
  ELSE "history"

\* main, line 176
main_load_catalog ==
  /\ pc = "catalog"
  /\ \E r1 \in Possible :
     \E r2 \in (IF r1 = "ok" /\ CatalogFiles(drive) # <<>> THEN Possible ELSE {"ok"}) :
       LET got == download_channels_list_from_drive(r1, r2)
           res == IF r1 # "ok" THEN r1 ELSE IF got.absent THEN "None" ELSE r2
       IN  /\ faults' = IF r1 = "ok" THEN Spend(r2) ELSE Spend(r1)
           /\ log' = Append(log, Event("download_channels_list_from_drive", 0, NoUrl, res))
           /\ channels' = got.value
           /\ pc' = AfterCatalog(got)
  /\ UNCHANGED <<now, tz, drive, catalog, youtube, fileHistory, scratch, run,
                 items, ci, past_videos, videos, vi, listed, prevFile, prev,
                 yt_streams>>

(***************************************************************************)
(* History Store                                                           *)
(***************************************************************************)
ChannelPc(chs, i) == IF i > Len(chs) THEN "persist" ELSE "channel"

\* a slip: a missing file is read as an empty history
open_history_Default(f) == [raised |-> FALSE, value |-> f.content]

\* open("past_videos.json", "r") raises FileNotFoundError when the file is
\* missing; json.load gives its content otherwise
open_history(f) == [raised |-> ~f.exists, value |-> f.content]

\* main, lines 181-182: nothing catches what open raises
main_load_history ==
  /\ pc = "history"
  /\ IF ~open_history(fileHistory).raised
     THEN /\ past_videos' = open_history(fileHistory).value
          /\ log' = Append(log, Event("read_history", 0, NoUrl, "ok"))
          /\ ci' = 1
          /\ pc' = ChannelPc(channels, 1)
     ELSE /\ log' = Append(log, Event("read_history", 0, NoUrl, "FileNotFoundError"))
          /\ pc' = "aborted"
          /\ UNCHANGED <<past_videos, ci>>
  /\ UNCHANGED <<now, tz, drive, catalog, youtube, fileHistory, scratch, faults, run,
                 items, channels, videos, vi, listed, prevFile, prev,
                 yt_streams>>

\* a slip: only the entries of this run are written
PersistedContent_NewOnly(pv) == SubSeq(pv, Len(prevFile.content) + 1, Len(pv))

\* main, lines 209-210: open("past_videos.json", "w") and json.dump
PersistedContent(pv) == pv

main_persist ==
  /\ pc = "persist"
  /\ fileHistory' = [exists |-> TRUE, content |-> PersistedContent(past_videos)]
  /\ log' = Append(log, Event("write_history", 0, NoUrl, "ok"))
  /\ pc' = "done"
  /\ UNCHANGED <<now, tz, drive, catalog, youtube, scratch, faults, run,
                 items, channels, ci, past_videos, videos, vi, listed, prevFile, prev,
                 yt_streams>>

(***************************************************************************)
(* Video Resolver                                                          *)
(***************************************************************************)
\* youtube.channels().list(part="contentDetails", id=channel_id): "items"
ChannelsList(channel_id) ==
  IF channel_id \in DOMAIN youtube /\ youtube[channel_id].exists
  THEN <<channel_id>> ELSE <<>>

\* youtube.playlistItems().list(playlistId, maxResults): "items"
PlaylistItemsList(uploads_playlist_id, maxResults) ==
  LET all == youtube[uploads_playlist_id].uploads
  IN  SubSeq(all, 1, Min(Len(all), maxResults))

ErrorTuple(msg) == <<PyNone, PyStr(msg)>>

\* get_latest_video_url(channel_id, last_n) when the two provider calls end
\* with r1 and r2: the value returned
get_latest_video_url(channel_id, last_n, r1, r2) ==
  IF channel_id = 0 THEN ErrorTuple("Could not extract channel identifier from URL")
  ELSE IF r1 = "HttpError" THEN ErrorTuple("API Error")
  ELSE IF r1 # "ok" THEN ErrorTuple("An unexpected error occurred")
  ELSE IF ChannelsList(channel_id) = <<>> THEN ErrorTuple("No channel found with ID")
  ELSE IF r2 = "HttpError" THEN ErrorTuple("API Error")
  ELSE IF r2 # "ok" THEN ErrorTuple("An unexpected error occurred")
  ELSE LET response == PlaylistItemsList(ChannelsList(channel_id)[1], last_n)
       IN  IF response = <<>> THEN ErrorTuple("Channel has no videos")
           \* response["items"][i] for i in range(last_n): IndexError
           ELSE IF Len(response) < last_n THEN ErrorTuple("An unexpected error occurred")
           ELSE [i \in 1..last_n |-> PyTuple(WatchUrl(response[i]), TitleOf(response[i]))]

IsError(result) == result # <<>> /\ result[1].tag # "tuple"

\* main, lines 184-188: the next channel of the catalog is resolved
main_resolve ==
  /\ pc = "channel"
  /\ ci <= Len(channels)
  /\ LET channel_id == channels[ci]
     IN  \E r1 \in (IF channel_id # 0 THEN Possible ELSE {"ok"}) :
         \E r2 \in (IF channel_id # 0 /\ r1 = "ok" /\ ChannelsList(channel_id) # <<>>
                    THEN Possible ELSE {"ok"}) :
           LET result == get_latest_video_url(channel_id, LAST_VIDEO_N, r1, r2)
           IN  /\ faults' = IF r1 = "ok" THEN Spend(r2) ELSE Spend(r1)
               /\ log' = Append(log, Event("get_latest_video_url", ci, NoUrl,
                                           IF IsError(result) THEN "error" ELSE "ok"))
               \* if not videos: continue
               /\ IF result = <<>>
                  THEN /\ ci' = ci + 1
                       /\ pc' = ChannelPc(channels, ci + 1)
                       /\ UNCHANGED <<videos, vi>>
                  ELSE /\ videos' = result
                       /\ vi' = 1
                       /\ pc' = "video"
                       /\ UNCHANGED ci
  /\ UNCHANGED <<now, tz, drive, catalog, youtube, fileHistory, scratch, run,
                 items, channels, past_videos, listed, prevFile, prev,
                 yt_streams>>

(***************************************************************************)
(* Sync Driver and Transfer Pipeline                                       *)
(***************************************************************************)
\* a slip: only the newest entry of the history is compared
InHistory_LastOnly(video_url, pv) == pv # <<>> /\ pv[Len(pv)] = video_url

\* video_url in past_videos
InHistory(video_url, pv) == \E k \in DOMAIN pv : pv[k] = video_url

\* a slip: past_videos.insert(0, video_url)
Record_Prepend(pv, video_url) == <<video_url>> \o pv

\* past_videos.append(video_url)
Record(pv, video_url) == Append(pv, video_url)

\* the transfer calls are all under "except Exception": one kind of raise
TransferOutcomes == Possible \ {"HttpError"}

\* the inner loop goes on to the next video, or the outer one to the next channel
AfterVideo ==
  IF vi + 1 > Len(videos)
  THEN /\ ci' = ci + 1
       /\ pc' = ChannelPc(channels, ci + 1)
       /\ videos' = <<>>
       /\ vi' = 0
  ELSE /\ vi' = vi + 1
       /\ pc' = "video"
       /\ UNCHANGED <<ci, videos>>

\* a slip: no outer handler, the failure leaves main()
OuterExcept_Propagate ==
  /\ pc' = "aborted"
  /\ UNCHANGED <<ci, videos, vi>>

\* main, lines 206-207: the outer handler ends the turn of this channel
OuterExcept ==
  /\ ci' = ci + 1
  /\ pc' = ChannelPc(channels, ci + 1)
  /\ videos' = <<>>
  /\ vi' = 0

\* a slip: the URL is recorded although its transfer failed
InnerExcept_Record ==
  /\ AfterVideo
  /\ past_videos' = Record(past_videos, videos[vi].url)

\* a slip: no inner handler, the failure reaches the outer one
InnerExcept_Outer ==
  /\ OuterExcept
  /\ UNCHANGED past_videos

\* a slip: the inner handler prints and raises again, out of main()
InnerExcept_Raise ==
  /\ pc' = "aborted"
  /\ UNCHANGED <<ci, videos, vi, past_videos>>

\* main, lines 203-204: the inner handler prints and the loop goes on
InnerExcept ==
  /\ AfterVideo
  /\ UNCHANGED past_videos

\* main, lines 189-192: the next element of videos is unpacked and looked up
main_next_video ==
  /\ pc = "video"
  /\ vi <= Len(videos)
  /\ LET element == videos[vi]
     IN  IF element.tag # "tuple"
         THEN \* for video_url, video_title in videos: None cannot be unpacked
              /\ log' = Append(log, Event("unpack", ci, NoUrl, "TypeError"))
              /\ OuterExcept
         ELSE IF InHistory(element.url, past_videos)
         THEN /\ log' = Append(log, Event("skip", ci, element.url, "ok"))
              /\ AfterVideo
         ELSE /\ pc' = "download"
              /\ UNCHANGED <<log, ci, videos, vi>>
  /\ UNCHANGED <<now, tz, drive, catalog, youtube, fileHistory, scratch, faults, run,
                 items, channels, past_videos, listed, prevFile, prev,
                 yt_streams>>

(***************************************************************************)
(* download_video, lines 118-127                                           *)
(***************************************************************************)
\* yt.streams.filter(progressive=True, file_extension='mp4')
filter_progressive_mp4(streams) == {s \in streams : s.progressive /\ s.subtype = "mp4"}

\* the key order_by('resolution') sorts on: the digits of the label as an integer
ResolutionKey(s) == s.resolution.digits

\* a slip: order_by(...).desc(), the highest resolution first
SortsBefore_Descending(x, y) ==
  \/ ResolutionKey(x) > ResolutionKey(y)
  \/ ResolutionKey(x) = ResolutionKey(y) /\ x.itag <= y.itag

\* sorted() is ascending and stable: equal keys keep the provider's order
SortsBefore(x, y) ==
  \/ ResolutionKey(x) < ResolutionKey(y)
  \/ ResolutionKey(x) = ResolutionKey(y) /\ x.itag <= y.itag

\* .order_by('resolution')
RECURSIVE order_by_resolution(_)
order_by_resolution(streams) ==
  IF streams = {} THEN <<>>
  ELSE LET s == CHOOSE x \in streams : \A y \in streams : SortsBefore(x, y)
       IN  <<s>> \o order_by_resolution(streams \ {s})

\* the label of line 122
TargetRes == Res(480)

\* streams.filter(res=label) on an ordered query
filter_res(streams, label) ==
  LET Matches(s) == s.resolution = label IN SelectSeq(streams, Matches)

\* .first(): the first stream of the query, None when it is empty
first(streams) == IF streams = <<>> THEN NoStream ELSE streams[1]

\* lines 120-124: the stream download_video calls .download on (None if none)
select_stream(offered) ==
  LET streams == order_by_resolution(filter_progressive_mp4(offered))
      stream  == first(filter_res(streams, TargetRes))
  IN  IF stream = NoStream THEN first(streams) ELSE stream

\* main, lines 194-197: download_video(video_url, file_path). YouTube(url)
\* or the fetch of its streams may raise before a stream is selected;
\* None.download raises AttributeError; stream.download may raise.
main_download ==
  /\ pc = "download"
  /\ LET video  == videos[vi]
         stream == select_stream(yt_streams[video.url.v])
         called == Event("stream.download", stream.itag, video.url, "ok")
     IN  \/ /\ faults < MaxFaults
            /\ faults' = faults + 1
            /\ log' = Append(log, Event("download_video", ci, video.url, "Exception"))
            /\ InnerExcept
            /\ UNCHANGED scratch
         \/ /\ stream = NoStream
            /\ log' = Append(log, Event("download_video", ci, video.url, "AttributeError"))
            /\ InnerExcept
            /\ UNCHANGED <<scratch, faults>>
         \/ /\ stream # NoStream
            /\ \E r \in TransferOutcomes :
                 /\ faults' = Spend(r)
                 /\ log' = log \o <<[called EXCEPT !.res = r],
                                    Event("download_video", ci, video.url, r)>>
                 /\ IF r = "ok"
                    THEN /\ scratch' = scratch \cup {FileName(video.title)}
                         /\ pc' = "upload"
                         /\ UNCHANGED <<ci, videos, vi, past_videos>>
                    ELSE /\ InnerExcept
                         /\ UNCHANGED scratch
  /\ UNCHANGED <<now, tz, drive, catalog, youtube, fileHistory, run,
                 items, channels, listed, prevFile, prev,
                 yt_streams>>

\* the id Drive gives a new file
NewId(files) == IF files = {} THEN 1
                ELSE 1 + (CHOOSE i \in {f.id : f \in files} : \A f \in files : f.id <= i)

\* upload_file(file_path, file_name): files().create in the shared folder
upload_file(file_name) ==
  drive \cup {[id |-> NewId(drive), name |-> file_name, createdTime |-> Rfc3339(now)]}

\* main, line 199
main_upload ==
  /\ pc = "upload"
  /\ LET video == videos[vi]
     IN  \E r \in TransferOutcomes :
           /\ faults' = Spend(r)
           /\ log' = Append(log, Event("upload_file", ci, video.url, r))
           /\ IF r = "ok"
              THEN /\ drive' = upload_file(FileName(video.title))
                   /\ pc' = "remove"
                   /\ UNCHANGED <<ci, videos, vi, past_videos>>
              ELSE /\ InnerExcept
                   /\ UNCHANGED drive
  /\ UNCHANGED <<now, tz, catalog, youtube, fileHistory, scratch, run,
                 items, channels, listed, prevFile, prev,
                 yt_streams>>

\* a slip: the scratch file is left behind
os_remove_Keep(files, file_name) == files

\* os.remove(file_path) when it returns: the videos/ directory afterwards
os_remove(files, file_name) == files \ {file_name}

\* main, lines 200-202: os.remove(file_path); past_videos.append(video_url)
main_remove_and_record ==
  /\ pc = "remove"
  /\ LET video == videos[vi]
     IN  \E r \in TransferOutcomes :
           /\ faults' = Spend(r)
           /\ IF r = "ok"
              THEN /\ scratch' = os_remove(scratch, FileName(video.title))
                   /\ past_videos' = Record(past_videos, video.url)
                   /\ log' = log \o <<Event("os.remove", ci, video.url, r),
                                      Event("append", ci, video.url, "ok")>>
                   /\ AfterVideo
              ELSE /\ log' = Append(log, Event("os.remove", ci, video.url, r))
                   /\ InnerExcept
                   /\ UNCHANGED scratch
  /\ UNCHANGED <<now, tz, drive, catalog, youtube, fileHistory, run,
                 items, channels, listed, prevFile, prev,
                 yt_streams>>

(***************************************************************************)
(* The job is started again (line 212-213) after a run has ended, normally *)
(* or with an exception out of main().                                     *)
(***************************************************************************)
Ended == pc \in {"done", "aborted"}

TransferOps == {"download_video", "upload_file", "os.remove"}

IsAppend(e) == e.op = "append"

UrlsOf(events) == [k \in DOMAIN events |-> events[k].url]

\* the URLs a run recorded, in order, and the URLs a transfer step of it failed for
Recorded(events) == UrlsOf(SelectSeq(events, IsAppend))

FailedUrls(events) ==
  {events[k].url : k \in {j \in DOMAIN events : events[j].op \in TransferOps /\ events[j].res # "ok"}}

start_next_run ==
  /\ Ended
  /\ run < MaxRuns
  /\ run' = run + 1
  /\ \E d \in 0..MaxAdvance : now' = now + d
  /\ pc' = "sweep_list"
  /\ items' = <<>>
  /\ channels' = <<>>
  /\ ci' = 0
  /\ past_videos' = <<>>
  /\ videos' = <<>>
  /\ vi' = 0
  /\ log' = <<>>
  /\ listed' = {}
  /\ prevFile' = fileHistory
  /\ prev' = [added |-> Recorded(log), unrecorded |-> FailedUrls(log) \ Range(Recorded(log))]
  /\ UNCHANGED <<tz, drive, catalog, youtube, fileHistory, scratch, faults, yt_streams>>

(***************************************************************************)
(* Initial states: the world the first run finds.                          *)
(***************************************************************************)
\* a file mirrored by an earlier run, created age ticks ago
MirroredFile(i, age) ==
  [id |-> i, name |-> FileName(TitleOf(0)), createdTime |-> Rfc3339(0 - age)]

CatalogFile(age) ==
  [id |-> MaxFiles + 1, name |-> CatalogName, createdTime |-> Rfc3339(0 - age)]

MissingFile == [exists |-> FALSE, content |-> <<>>]

Tubes ==
  {t \in [1..NumChannels -> [exists : BOOLEAN, uploads : UNION {PlaylistsOf(c) : c \in 1..NumChannels}]] :
     \A c \in 1..NumChannels :
       /\ t[c].uploads \in PlaylistsOf(c)
       /\ ~t[c].exists => t[c].uploads = <<>>}

InitWith(tzs, mirrorAges, catalogAges, catalogs, tubes, histories, offers) ==
  /\ now = 0
  /\ tz \in tzs
  /\ \E ages \in [1..MaxFiles -> mirrorAges] :
     \E cat \in {{}} \cup {{CatalogFile(a)} : a \in catalogAges} :
       drive = {MirroredFile(i, ages[i]) : i \in 1..MaxFiles} \cup cat
  /\ catalog \in catalogs
  /\ youtube \in tubes
  /\ fileHistory \in {MissingFile} \cup {[exists |-> TRUE, content |-> h] : h \in histories}
  /\ scratch = {}
  /\ faults = 0
  /\ pc = "sweep_list"
  /\ run = 1
  /\ items = <<>>
  /\ channels = <<>>
  /\ ci = 0
  /\ past_videos = <<>>
  /\ videos = <<>>
  /\ vi = 0
  /\ log = <<>>
  /\ listed = {}
  /\ prevFile = fileHistory
  /\ prev = [added |-> <<>>, unrecorded |-> {}]
  /\ yt_streams \in offers

\* every video offers the usual streams
UsualOffer == [v \in VideoIds |-> UsualStreams]

\* the sync side in full; the mirrored files are old, the catalog file young
Init ==
  InitWith({0}, {RetentionTicks(days_to_keep) + AgeSlack},
           {RetentionTicks(days_to_keep) - AgeSlack},
           SeqsUpTo(ChannelIds, MaxCatalog), Tubes, SeqsUpTo(HistoryUrls, MaxHistory),
           {UsualOffer})

Next ==
  \/ delete_old_videos_list
  \/ delete_old_videos_item
  \/ main_load_catalog
  \/ main_load_history
  \/ main_resolve
  \/ main_next_video
  \/ main_download
  \/ main_upload
  \/ main_remove_and_record
  \/ main_persist
  \/ start_next_run

Spec == Init /\ [][Next]_vars

\* the sweep side in full: every clock offset and age; one channel of three videos
TubeOfOne ==
  [c \in 1..NumChannels |->
     IF c = 1 THEN [exists |-> TRUE, uploads |-> Window(1, LAST_VIDEO_N)]
     ELSE [exists |-> FALSE, uploads |-> <<>>]]

InitSweep == InitWith(TzOffsets, Ages, Ages, {<<1>>}, {TubeOfOne}, {<<>>}, {UsualOffer})

\* main() is sequential and every call it makes returns or raises: a run
\* that can take a step takes one
SpecLive == Spec /\ WF_vars(Next)

SpecSweep == InitSweep /\ [][Next]_vars

\* the download side in full: the newest video of the channel offers any
\* set of streams, the second one the usual streams or none at all
Offers ==
  {[v \in VideoIds |-> IF v = 1 THEN s1 ELSE IF v = 2 THEN s2 ELSE UsualStreams] :
     s1 \in SUBSET StreamUniverse, s2 \in {UsualStreams, {}}}

InitStreams ==
  InitWith({0}, {RetentionTicks(days_to_keep) + AgeSlack},
           {RetentionTicks(days_to_keep) - AgeSlack}, {<<1>>}, {TubeOfOne}, {<<>>}, Offers)

SpecStreams == InitStreams /\ [][Next]_vars

(***************************************************************************)
(* Properties                                                              *)
(***************************************************************************)
LastEvent == log[Len(log)]

Wrote == \E k \in DOMAIN log : log[k].op = "write_history"

HistoryRead == \E k \in DOMAIN log : log[k].op = "read_history" /\ log[k].res = "ok"

IsFailure(e) == e.op \in TransferOps /\ e.res # "ok"

IsRemoved(e) == e.op = "os.remove" /\ e.res = "ok"

\* the URLs whose transfer went through in this run, in order
Transferred == UrlsOf(SelectSeq(log, IsRemoved))

ResolvedChannels == {log[k].n : k \in {j \in DOMAIN log : log[j].op = "get_latest_video_url"}}

FailedChannels ==
  {log[k].n : k \in {j \in DOMAIN log : log[j].op = "get_latest_video_url" /\ log[j].res = "error"}}

IsPrefix(s, t) == Len(s) <= Len(t) /\ SubSeq(t, 1, Len(s)) = s

\* C1: no URL of the history read at the start of the run is handed to
\* download_video or upload_file during the run.
C1_Dedup ==
  \A k \in DOMAIN log :
    log[k].op \in {"download_video", "upload_file"} => log[k].url \notin Range(prevFile.content)

C1_Witness ==
  \E j, k \in DOMAIN log :
    /\ j < k
    /\ log[j].op = "skip" /\ log[j].url \in Range(prevFile.content)
    /\ log[k].op = "upload_file" /\ log[k].n = log[j].n

\* C2 as stated: a URL one of whose transfer steps failed in this run is
\* never recorded in this run.
C2_FailedNeverRecorded ==
  \A j, k \in DOMAIN log :
    ~(IsFailure(log[j]) /\ log[k].op = "append" /\ log[k].url = log[j].url)

\* C2 as amended: a URL whose transfer failed and did not go through at a
\* later attempt of the same run is not in the History Set in memory, is not
\* in the file the run writes, and the next run downloads it before it ever
\* skips it.
C2_FailedNotRecorded ==
  /\ \A u \in FailedUrls(log) \ Range(Transferred) :
       /\ ~InHistory(u, past_videos)
       /\ (pc = "done" /\ Wrote) => u \notin Range(fileHistory.content)
  /\ \A u \in prev.unrecorded :
       /\ u \notin Range(prevFile.content)
       /\ \A k \in DOMAIN log :
            (log[k].op = "skip" /\ log[k].url = u)
              => \E j \in 1..(k - 1) : log[j].op = "download_video" /\ log[j].url = u

C2_Witness ==
  /\ run > 1
  /\ \E k \in DOMAIN log : log[k].op = "download_video" /\ log[k].url \in prev.unrecorded

\* C3: a channel whose resolution fails gets no transfer, does not end the
\* run, every channel of the catalog is resolved before the history is
\* written, and what was recorded stays recorded and is written.
C3_ChannelIsolation ==
  /\ \A k \in DOMAIN log :
       log[k].op \in TransferOps \cup {"skip", "append"} => log[k].n \notin FailedChannels
  /\ FailedChannels # {} => pc # "aborted"
  /\ (pc \in {"persist", "done"} /\ HistoryRead) => ResolvedChannels = 1..Len(channels)
  /\ \A k \in DOMAIN log :
       log[k].op = "append" =>
         /\ log[k].url \in Range(past_videos)
         /\ (pc = "done" /\ Wrote) => log[k].url \in Range(fileHistory.content)

C3_Witness ==
  /\ pc = "done" /\ Wrote
  /\ 1 \in FailedChannels
  /\ \E k \in DOMAIN log : log[k].op = "append" /\ log[k].n = 2

\* C4: after a failed transfer the run is not ended, every video of that
\* channel is still looked at (skipped or downloaded), a video is skipped
\* only if it is in the History Set, and all channels are resolved.
C4_VideoIsolation ==
  /\ (\E k \in DOMAIN log : IsFailure(log[k])) => pc # "aborted"
  /\ \A k \in DOMAIN log :
       (IsFailure(log[k]) /\ (ci > log[k].n \/ pc \in {"persist", "done"})) =>
         LET uploads == youtube[channels[log[k].n]].uploads
         IN  \A p \in 1..LAST_VIDEO_N :
               \E h \in DOMAIN log :
                 /\ log[h].op \in {"skip", "download_video"}
                 /\ log[h].n = log[k].n
                 /\ log[h].url = WatchUrl(uploads[p])
  /\ \A k \in DOMAIN log :
       log[k].op = "skip" =>
         \/ log[k].url \in Range(prevFile.content)
         \/ \E j \in 1..(k - 1) : log[j].op = "append" /\ log[j].url = log[k].url
  /\ ((\E k \in DOMAIN log : IsFailure(log[k])) /\ pc \in {"persist", "done"})
       => ResolvedChannels = 1..Len(channels)

C4_Witness ==
  \E j, k \in DOMAIN log :
    /\ j < k
    /\ IsFailure(log[j])
    /\ log[k].op = "download_video" /\ log[k].n = log[j].n /\ log[k].url # log[j].url

\* C5: the history a run writes is the history it read followed by the URLs
\* of the transfers that went through, in order; the history read is a
\* prefix of the history in memory throughout.
C5_PersistedHistory ==
  /\ (pc = "done" /\ Wrote) => fileHistory.content = prevFile.content \o Transferred
  /\ HistoryRead => IsPrefix(prevFile.content, past_videos)

C5_Witness ==
  /\ pc = "done" /\ Wrote
  /\ prevFile.content # <<>>
  /\ \E j, k \in DOMAIN log :
       /\ j < k
       /\ log[j].op = "skip" /\ log[j].url = prevFile.content[1]
       /\ IsRemoved(log[k]) /\ log[k].n = log[j].n

\* C6: a second run transfers nothing the run before it recorded or found
\* recorded, and the file it leaves contains every entry the run before left.
C6_Idempotence ==
  run > 1 =>
    /\ \A k \in DOMAIN log :
         log[k].op \in {"download_video", "upload_file"} =>
           log[k].url \notin Range(prev.added) \cup Range(prevFile.content)
    /\ Range(prev.added) \subseteq Range(prevFile.content)
    /\ Range(prevFile.content) \subseteq Range(fileHistory.content)

C6_Witness ==
  /\ run > 1
  /\ pc = "done" /\ Wrote
  /\ \E k \in DOMAIN log : log[k].op = "skip" /\ log[k].url \in Range(prev.added)

\* C7: when the catalog loader returns None the run ends there: the history
\* file is neither read nor written and nothing is resolved or transferred.
C7_AbsentCatalog ==
  \A k \in DOMAIN log :
    (log[k].op = "download_channels_list_from_drive" /\ log[k].res = "None") =>
      /\ k = Len(log)
      /\ pc = "done"
      /\ fileHistory = prevFile
      /\ \A j \in DOMAIN log :
           log[j].op \notin {"read_history", "write_history", "get_latest_video_url",
                             "download_video", "upload_file"}

C7_Witness ==
  /\ pc = "done"
  /\ log # <<>>
  /\ LastEvent.op = "download_channels_list_from_drive" /\ LastEvent.res = "None"
  /\ fileHistory.exists /\ fileHistory.content # <<>>

\* C8: an error raised by a folder listing call (of the sweep or of the
\* catalog loader) does not end the run.
C8_ListingErrorNotFatal ==
  ~(/\ pc = "aborted"
    /\ log # <<>>
    /\ LastEvent.op \in {"files.list", "download_channels_list_from_drive"}
    /\ LastEvent.res \in Raises)

\* C9: a failure of one delete, of any kind, does not end the sweep or the run.
C9_DeleteFailureNotFatal ==
  ~(pc = "aborted" /\ log # <<>> /\ LastEvent.op = "files.delete")

\* C10: a listed file the sweep has looked at has had a delete issued exactly
\* when its age, now - createdTime, is greater than the retention.
C10_RetentionBoundary ==
  \A f \in listed :
    f \notin Range(items) =>
      ((\E k \in DOMAIN log : log[k].op = "files.delete" /\ log[k].n = f.id)
         <=> now - f.createdTime.t > RetentionTicks(days_to_keep))

\* C11: with no call raising, a channel that exists and has k >= 1 uploads
\* resolves to its first min(k, LAST_VIDEO_N) uploads as (url, title) tuples.
C11_ResolvesFirstUploads ==
  (/\ pc = "video" /\ vi = 1
   /\ faults = 0
   /\ channels[ci] # 0
   /\ youtube[channels[ci]].exists
   /\ Len(youtube[channels[ci]].uploads) >= 1)
    => LET uploads == youtube[channels[ci]].uploads
       IN  videos = [i \in 1..Min(Len(uploads), LAST_VIDEO_N) |->
                       PyTuple(WatchUrl(uploads[i]), TitleOf(uploads[i]))]

\* the progressive mp4 streams the video of a URL offers
ProgressiveMp4(url) == {s \in yt_streams[url.v] : s.progressive /\ s.subtype = "mp4"}

C13_ReachesPersist ==
  /\ [](HistoryRead => pc # "aborted")
  /\ HistoryRead ~> (pc = "done" /\ Wrote)

\* a run with a failed resolution and a failed transfer has written the
\* history and returned
C13_Witness ==
  /\ pc = "done" /\ Wrote
  /\ FailedChannels # {}
  /\ \E k \in DOMAIN log : IsFailure(log[k])

\* C14: in a run that has loaded the catalog while past_videos.json is
\* missing, no channel is resolved, no video is skipped or transferred,
\* nothing is recorded, the file is not created, and the run does not get
\* past the read: it ends there with FileNotFoundError out of main().
C14_MissingHistoryAborts ==
  (/\ ~prevFile.exists
   /\ \E k \in DOMAIN log :
        log[k].op = "download_channels_list_from_drive" /\ log[k].res = "ok")
    => /\ ~fileHistory.exists
       /\ past_videos = <<>>
       /\ \A k \in DOMAIN log :
            log[k].op \notin TransferOps \cup {"get_latest_video_url", "skip", "stream.download",
                                               "append", "write_history"}
       /\ pc \in {"history", "aborted"}
       /\ pc = "aborted" =>
            LastEvent.op = "read_history" /\ LastEvent.res = "FileNotFoundError"

\* the catalog names a channel with uploads, the history file is missing,
\* and the run has ended at the read
C14_Witness ==
  /\ pc = "aborted"
  /\ ~fileHistory.exists
  /\ log # <<>>
  /\ LastEvent.op = "read_history" /\ LastEvent.res = "FileNotFoundError"
  /\ \E i \in DOMAIN channels :
       channels[i] # 0 /\ youtube[channels[i]].exists /\ youtube[channels[i]].uploads # <<>>

\* C15: the sweep issues no delete for channels.json, and a catalog file
\* that was in the folder when the sweep listed it is still there when the
\* catalog loader looks for it (stated for a host whose clock is UTC).
C15_SweepKeepsCatalog ==
  tz = 0 =>
    /\ \A f \in listed :
         f.name = CatalogName =>
           ~\E k \in DOMAIN log : log[k].op = "files.delete" /\ log[k].n = f.id
    /\ \A k \in DOMAIN log :
         (/\ log[k].op = "download_channels_list_from_drive"
          /\ \E f \in listed : f.name = CatalogName)
           => log[k].res # "None"

\* the positions in the trace of the uploads of a URL that went through
UploadsOf(url) ==
  {j \in DOMAIN log : log[j].op = "upload_file" /\ log[j].res = "ok" /\ log[j].url = url}

\* C16: for every URL appended in this run, exactly one upload of that URL
\* went through in this run, and it did so before the append.
C16_OneUploadPerAppend ==
  \A k \in DOMAIN log :
    log[k].op = "append" =>
      /\ Cardinality(UploadsOf(log[k].url)) = 1
      /\ \A j \in UploadsOf(log[k].url) : j < k

\* C17: when a run has written the history, the URL of every upload that
\* went through in that run is in the file.
C17_UploadedIsRecorded ==
  (pc = "done" /\ Wrote) =>
    \A k \in DOMAIN log :
      (log[k].op = "upload_file" /\ log[k].res = "ok")
        => log[k].url \in Range(fileHistory.content)

\* the scratch file of the video of a URL
ScratchOf(url) == FileName(TitleOf(url.v))

\* C18: an append comes directly after the removal of the scratch file of
\* the same video, and the file of a recorded video is not in the scratch
\* directory; a removal is attempted only directly after the upload of the
\* same video went through; after a download that went through and an upload
\* that failed the scratch file is still there.
C18_ScratchHandling ==
  /\ \A k \in DOMAIN log :
       log[k].op = "append" =>
         /\ k > 1
         /\ IsRemoved(log[k - 1]) /\ log[k - 1].url = log[k].url /\ log[k - 1].n = log[k].n
         /\ ScratchOf(log[k].url) \notin scratch
  /\ \A k \in DOMAIN log :
       log[k].op = "os.remove" =>
         /\ k > 1
         /\ log[k - 1].op = "upload_file" /\ log[k - 1].res = "ok"
         /\ log[k - 1].url = log[k].url /\ log[k - 1].n = log[k].n
  /\ \A k \in DOMAIN log :
       (/\ log[k].op = "upload_file" /\ log[k].res # "ok"
        /\ \A j \in (k + 1)..Len(log) : log[j].url # log[k].url)
         => /\ log[k - 1].op = "download_video" /\ log[k - 1].res = "ok"
            /\ log[k - 1].url = log[k].url
            /\ ScratchOf(log[k].url) \in scratch

\* one video's upload has failed and its scratch file is there; a later
\* video has been recorded and its scratch file is gone
C18_Witness ==
  \E j, k \in DOMAIN log :
    /\ j < k
    /\ log[j].op = "upload_file" /\ log[j].res # "ok"
    /\ ScratchOf(log[j].url) \in scratch
    /\ log[k].op = "append" /\ log[k].url # log[j].url
    /\ ScratchOf(log[k].url) \notin scratch

SyncOps ==
  TransferOps \cup {"get_latest_video_url", "unpack", "skip", "stream.download", "append"}

IsCatalogLoad(e) == e.op = "download_channels_list_from_drive"

\* C19: a run starts with the one listing of the sweep; the catalog is
\* loaded once, after every listed file has been looked at and every delete
\* issued; the history is read once, after the catalog was loaded; every
\* resolve and every transfer step comes after the read; the history file
\* stays as the run found it until the one write, which is the last thing
\* the run does, after every channel of the catalog has been resolved.
C19_RunOrder ==
  /\ pc # "sweep_list" => log # <<>>
  /\ \A k \in DOMAIN log : log[k].op = "files.list" <=> k = 1
  /\ \A k \in DOMAIN log :
       IsCatalogLoad(log[k]) =>
         /\ items = <<>>
         /\ \A j \in DOMAIN log :
              /\ log[j].op \in {"files.list", "files.delete"} => j < k
              /\ IsCatalogLoad(log[j]) => j = k
  /\ \A k \in DOMAIN log :
       log[k].op = "read_history" =>
         /\ \E j \in 1..(k - 1) : IsCatalogLoad(log[j]) /\ log[j].res = "ok"
         /\ \A j \in DOMAIN log : log[j].op = "read_history" => j = k
  /\ \A k \in DOMAIN log :
       log[k].op \in SyncOps \cup {"write_history"} =>
         \E j \in 1..(k - 1) : log[j].op = "read_history" /\ log[j].res = "ok"
  /\ ~Wrote => fileHistory = prevFile
  /\ \A k \in DOMAIN log :
       log[k].op = "write_history" =>
         /\ k = Len(log)
         /\ pc = "done"
         /\ ResolvedChannels = 1..Len(channels)

\* a run that deleted a file, resolved two channels and recorded two
\* transfers has written the history
C19_Witness ==
  /\ pc = "done" /\ Wrote
  /\ \E k \in DOMAIN log : log[k].op = "files.delete"
  /\ Len(channels) = 2
  /\ \E j, k \in DOMAIN log :
       j < k /\ log[j].op = "append" /\ log[k].op = "append" /\ log[j].n # log[k].n

====
